---- MODULE Spec2Model ----
(***************************************************************************)
(* Model of the WebRTC signaling relay of src/server.js: the connection    *)
(* registry (connections), the room map (rooms) and the handlers that the  *)
(* message, close and connection events of a WebSocket run.  Every handler *)
(* runs to completion on the single event-loop thread, so one action is    *)
(* one handled event.                                                      *)
(***************************************************************************)
EXTENDS Integers, Sequences, FiniteSets, Bags, TLC

(***************************************************************************)
(* Bounds of the model.                                                    *)
(***************************************************************************)
MaxConns == 3
MaxRooms == 2
MaxEvents == 8
MaxTrimRooms == 2
MaxTrimEvents == 7
MaxAuthConns == 2
MaxAuthEvents == 7
MaxProcEvents == 7
MaxMissed == 2
MaxIdEvents == 6
MaxNotifyEvents == 7
MaxUserEvents == 15

(***************************************************************************)
(* Values.  A room id is a client-supplied string; NoRoom is the falsy     *)
(* value (null, undefined or "") of a room pointer or of a frame's roomId. *)
(* NoConn is the undefined that Array.find returns for "no other member".  *)
(***************************************************************************)
NoRoom == 0
NoConn == 0
ConnIds == 1..MaxConns
RoomIds == 1..MaxRooms
FrameRoomIds == RoomIds \cup {NoRoom}
Payloads == {"sdpA", "sdpB"}
\* frame types that are none of the cases of the switch; a frame without a
\* type reads as undefined
UnknownTypes == {"auth", "undefined"}

VARIABLES
    rooms,        \* Map roomId -> Set of client ids, as insertion-ordered sequences
    connections,  \* Map clientId -> [ws, roomId]
    nextId,       \* the next id generateId hands out
    closed,       \* the client ids whose 'close' event has been dispatched
    db,           \* the user directory: active_connections rows and users.status
    tasks,        \* the async handlers suspended at an await, a bag
    timers,       \* the client ids whose pingInterval is scheduled
    pings,        \* per client id, the pings sent that no pong has answered
    phase,        \* of the process: "running", "closing" (wss.close called), "exited"
    notified,     \* history: the pairs <<p, c>> such that p was sent a user-left
                  \* naming c when c and p last shared a room, or after that
    events,       \* number of events handled so far
    last,         \* the observed event, [type |-> "none"] while none is observed
    sent,         \* the messages written to transports while handling the observed event
    pre           \* rooms and connections as they were before the observed event

vars == <<rooms, connections, nextId, closed, db, tasks, timers, pings, phase,
          notified, events, last, sent, pre>>

(***************************************************************************)
(* Map and Set helpers (JavaScript Map and insertion-ordered Set).         *)
(***************************************************************************)
EmptyMap == [k \in {} |-> {}]

MapSet(m, k, v) == [x \in (DOMAIN m) \cup {k} |-> IF x = k THEN v ELSE m[x]]

MapDelete(m, k) == [x \in (DOMAIN m) \ {k} |-> m[x]]

Members(room) == {room[i] : i \in 1..Len(room)}

SetAdd(room, id) == IF id \in Members(room) THEN room ELSE Append(room, id)

SetDelete(room, id) == SelectSeq(room, LAMBDA x : x # id)

\* Array.from(room).find(id => id !== clientId)
FindOther(room, clientId) ==
    LET others == SelectSeq(room, LAMBDA x : x # clientId)
    IN  IF Len(others) = 0 THEN NoConn ELSE others[1]

(***************************************************************************)
(* sendMessage: the message reaches the transport only if it is OPEN.      *)
(* A handler state st is [rooms, connections, out]; out collects the       *)
(* messages written while the handler runs.                                *)
(***************************************************************************)
sendMessage(st, to, message) ==
    IF to \in DOMAIN st.connections /\ st.connections[to].ws = "OPEN"
    THEN [st EXCEPT !.out = Append(@, [to |-> to] @@ message)]
    ELSE st

\* handleLeaveRoom that picks the connection to notify before it removes the
\* leaver from the room
handleLeaveRoomTellsFirst(st, clientId, roomId) ==
    IF roomId \notin DOMAIN st.rooms THEN st
    ELSE
        LET room == SetDelete(st.rooms[roomId], clientId)
            st1 == IF Len(room) = 0
                   THEN [st EXCEPT !.rooms = MapDelete(@, roomId)]
                   ELSE [st EXCEPT !.rooms = MapSet(@, roomId, room)]
            other == IF Len(st.rooms[roomId]) = 0 THEN NoConn ELSE st.rooms[roomId][1]
            st2 == IF Len(room) = 0 THEN st1
                   ELSE IF other \in DOMAIN st1.connections
                        THEN sendMessage(st1, other,
                                 [type |-> "user-left", userId |-> clientId,
                                  participantCount |-> Len(room)])
                        ELSE st1
        IN  IF clientId \in DOMAIN st2.connections
            THEN [st2 EXCEPT !.connections[clientId].roomId = NoRoom]
            ELSE st2

handleLeaveRoom(st, clientId, roomId) ==
    IF roomId \notin DOMAIN st.rooms THEN st
    ELSE
        LET room == SetDelete(st.rooms[roomId], clientId)
            st1 == IF Len(room) = 0
                   THEN [st EXCEPT !.rooms = MapDelete(@, roomId)]
                   ELSE [st EXCEPT !.rooms = MapSet(@, roomId, room)]
            other == IF Len(room) = 0 THEN NoConn ELSE room[1]
            st2 == IF Len(room) = 0 THEN st1
                   ELSE IF other \in DOMAIN st1.connections
                        THEN sendMessage(st1, other,
                                 [type |-> "user-left", userId |-> clientId,
                                  participantCount |-> Len(room)])
                        ELSE st1
        IN  IF clientId \in DOMAIN st2.connections
            THEN [st2 EXCEPT !.connections[clientId].roomId = NoRoom]
            ELSE st2

\* joinAdmitted without the room-joined confirmation
joinAdmittedNoConfirm(st, clientId, roomId) ==
    LET room0 == st.rooms[roomId]
        known == clientId \in DOMAIN st.connections
        old == IF known THEN st.connections[clientId].roomId ELSE NoRoom
        st1 == IF known /\ old # NoRoom THEN handleLeaveRoom(st, clientId, old) ELSE st
        room1 == IF known /\ old = roomId THEN SetDelete(room0, clientId) ELSE room0
        room == SetAdd(room1, clientId)
        st2 == IF roomId \in DOMAIN st1.rooms
               THEN [st1 EXCEPT !.rooms = MapSet(@, roomId, room)]
               ELSE st1
        st3 == IF known THEN [st2 EXCEPT !.connections[clientId].roomId = roomId] ELSE st2
        other == FindOther(room, clientId)
    IN  IF Len(room) = 2 /\ other \in DOMAIN st3.connections
        THEN sendMessage(st3, other,
                 [type |-> "user-joined", userId |-> clientId,
                  participantCount |-> Len(room)])
        ELSE st3

\* joinAdmitted sending user-joined to the joiner instead of the other occupant
joinAdmittedNotifiesJoiner(st, clientId, roomId) ==
    LET room0 == st.rooms[roomId]
        known == clientId \in DOMAIN st.connections
        old == IF known THEN st.connections[clientId].roomId ELSE NoRoom
        st1 == IF known /\ old # NoRoom THEN handleLeaveRoom(st, clientId, old) ELSE st
        room1 == IF known /\ old = roomId THEN SetDelete(room0, clientId) ELSE room0
        room == SetAdd(room1, clientId)
        st2 == IF roomId \in DOMAIN st1.rooms
               THEN [st1 EXCEPT !.rooms = MapSet(@, roomId, room)]
               ELSE st1
        st3 == IF known THEN [st2 EXCEPT !.connections[clientId].roomId = roomId] ELSE st2
        st4 == sendMessage(st3, clientId,
                   [type |-> "room-joined", roomId |-> roomId,
                    participantCount |-> Len(room)])
    IN  IF Len(room) = 2
        THEN sendMessage(st4, clientId,
                 [type |-> "user-joined", userId |-> clientId,
                  participantCount |-> Len(room)])
        ELSE st4

\* After the capacity check: leave the previous room, add to the Set object
\* `room` fetched before the leave, set the pointer, confirm, notify the peer.
\* When the leave deleted that very Set from the map (the previous room is the
\* target and the client was alone in it) the add lands on a detached Set.
joinAdmitted(st, clientId, roomId) ==
    LET room0 == st.rooms[roomId]
        known == clientId \in DOMAIN st.connections
        old == IF known THEN st.connections[clientId].roomId ELSE NoRoom
        st1 == IF known /\ old # NoRoom THEN handleLeaveRoom(st, clientId, old) ELSE st
        room1 == IF known /\ old = roomId THEN SetDelete(room0, clientId) ELSE room0
        room == SetAdd(room1, clientId)
        st2 == IF roomId \in DOMAIN st1.rooms
               THEN [st1 EXCEPT !.rooms = MapSet(@, roomId, room)]
               ELSE st1
        st3 == IF known THEN [st2 EXCEPT !.connections[clientId].roomId = roomId] ELSE st2
        st4 == sendMessage(st3, clientId,
                   [type |-> "room-joined", roomId |-> roomId,
                    participantCount |-> Len(room)])
        other == FindOther(room, clientId)
    IN  IF Len(room) = 2 /\ other \in DOMAIN st4.connections
        THEN sendMessage(st4, other,
                 [type |-> "user-joined", userId |-> clientId,
                  participantCount |-> Len(room)])
        ELSE st4

\* handleJoinRoom with the capacity check off by one (size > 2 for size >= 2)
handleJoinRoomOffByOne(st, clientId, roomId) ==
    IF roomId = NoRoom
    THEN sendMessage(st, clientId, [type |-> "error", message |-> "Room ID is required"])
    ELSE
        LET st1 == IF roomId \notin DOMAIN st.rooms
                   THEN [st EXCEPT !.rooms = MapSet(@, roomId, <<>>)]
                   ELSE st
        IN  IF Len(st1.rooms[roomId]) > 2
            THEN sendMessage(st1, clientId,
                     [type |-> "error", message |-> "Room is full (max 2 participants)"])
            ELSE joinAdmitted(st1, clientId, roomId)

\* handleJoinRoom leaving the previous room before the capacity check
handleJoinRoomLeaveFirst(st, clientId, roomId) ==
    IF roomId = NoRoom
    THEN sendMessage(st, clientId, [type |-> "error", message |-> "Room ID is required"])
    ELSE
        LET known == clientId \in DOMAIN st.connections
            old == IF known THEN st.connections[clientId].roomId ELSE NoRoom
            st0 == IF known /\ old # NoRoom THEN handleLeaveRoom(st, clientId, old) ELSE st
            st1 == IF roomId \notin DOMAIN st0.rooms
                   THEN [st0 EXCEPT !.rooms = MapSet(@, roomId, <<>>)]
                   ELSE st0
        IN  IF Len(st1.rooms[roomId]) >= 2
            THEN sendMessage(st1, clientId,
                     [type |-> "error", message |-> "Room is full (max 2 participants)"])
            ELSE joinAdmitted(st1, clientId, roomId)

\* handleJoinRoom leaving the current room before it validates the room id
handleJoinRoomLeaveBeforeValidate(st, clientId, roomId) ==
    LET known == clientId \in DOMAIN st.connections
        old == IF known THEN st.connections[clientId].roomId ELSE NoRoom
        st0 == IF known /\ old # NoRoom THEN handleLeaveRoom(st, clientId, old) ELSE st
    IN  IF roomId = NoRoom
        THEN sendMessage(st0, clientId, [type |-> "error", message |-> "Room ID is required"])
        ELSE
            LET st1 == IF roomId \notin DOMAIN st0.rooms
                       THEN [st0 EXCEPT !.rooms = MapSet(@, roomId, <<>>)]
                       ELSE st0
            IN  IF Len(st1.rooms[roomId]) >= 2
                THEN sendMessage(st1, clientId,
                         [type |-> "error", message |-> "Room is full (max 2 participants)"])
                ELSE joinAdmitted(st1, clientId, roomId)

handleJoinRoom(st, clientId, roomId) ==
    IF roomId = NoRoom
    THEN sendMessage(st, clientId, [type |-> "error", message |-> "Room ID is required"])
    ELSE
        LET st1 == IF roomId \notin DOMAIN st.rooms
                   THEN [st EXCEPT !.rooms = MapSet(@, roomId, <<>>)]
                   ELSE st
        IN  IF Len(st1.rooms[roomId]) >= 2
            THEN sendMessage(st1, clientId,
                     [type |-> "error", message |-> "Room is full (max 2 participants)"])
            ELSE joinAdmitted(st1, clientId, roomId)

\* handleOffer that forwards nothing and records the frame's room as the
\* sender's room
handleOfferRepoints(st, clientId, roomId, offer) ==
    IF clientId \in DOMAIN st.connections
    THEN [st EXCEPT !.connections[clientId].roomId = roomId]
    ELSE st

handleOffer(st, clientId, roomId, offer) ==
    IF roomId \notin DOMAIN st.rooms THEN st
    ELSE
        LET otherClientId == FindOther(st.rooms[roomId], clientId)
        IN  IF otherClientId = NoConn THEN st
            ELSE IF otherClientId \in DOMAIN st.connections
                 THEN sendMessage(st, otherClientId,
                          [type |-> "offer", offer |-> offer, fromUserId |-> clientId])
                 ELSE st

\* handleAnswer sending the answer back to its sender
handleAnswerEcho(st, clientId, roomId, answer) ==
    IF roomId \notin DOMAIN st.rooms THEN st
    ELSE
        LET otherClientId == FindOther(st.rooms[roomId], clientId)
        IN  IF otherClientId = NoConn THEN st
            ELSE IF otherClientId \in DOMAIN st.connections
                 THEN sendMessage(st, clientId,
                          [type |-> "answer", answer |-> answer, fromUserId |-> clientId])
                 ELSE st

handleAnswer(st, clientId, roomId, answer) ==
    IF roomId \notin DOMAIN st.rooms THEN st
    ELSE
        LET otherClientId == FindOther(st.rooms[roomId], clientId)
        IN  IF otherClientId = NoConn THEN st
            ELSE IF otherClientId \in DOMAIN st.connections
                 THEN sendMessage(st, otherClientId,
                          [type |-> "answer", answer |-> answer, fromUserId |-> clientId])
                 ELSE st

\* handleIceCandidate reporting a missing peer to the sender
handleIceCandidateReportsError(st, clientId, roomId, candidate) ==
    IF roomId \notin DOMAIN st.rooms THEN st
    ELSE
        LET otherClientId == FindOther(st.rooms[roomId], clientId)
        IN  IF otherClientId = NoConn
            THEN sendMessage(st, clientId, [type |-> "error", message |-> "No peer"])
            ELSE IF otherClientId \in DOMAIN st.connections
                 THEN sendMessage(st, otherClientId,
                          [type |-> "ice-candidate", candidate |-> candidate, fromUserId |-> clientId])
                 ELSE st

handleIceCandidate(st, clientId, roomId, candidate) ==
    IF roomId \notin DOMAIN st.rooms THEN st
    ELSE
        LET otherClientId == FindOther(st.rooms[roomId], clientId)
        IN  IF otherClientId = NoConn THEN st
            ELSE IF otherClientId \in DOMAIN st.connections
                 THEN sendMessage(st, otherClientId,
                          [type |-> "ice-candidate", candidate |-> candidate, fromUserId |-> clientId])
                 ELSE st

handleDisconnect(st, clientId) ==
    LET known == clientId \in DOMAIN st.connections
        st1 == IF known /\ st.connections[clientId].roomId # NoRoom
               THEN handleLeaveRoom(st, clientId, st.connections[clientId].roomId)
               ELSE st
    IN  [st1 EXCEPT !.connections = MapDelete(@, clientId)]

\* the default case of the switch on data.type
defaultCaseGeneric(st, clientId, type) ==
    sendMessage(st, clientId, [type |-> "error", message |-> "Unknown message type"])

defaultCase(st, clientId, type) ==
    sendMessage(st, clientId,
        [type |-> "error", message |-> "Unknown message type: " \o type])

generateId == nextId

(***************************************************************************)
(* Events.                                                                 *)
(***************************************************************************)
Cur == [rooms |-> rooms, connections |-> connections, out |-> <<>>]

\* One handled event: the handler's result becomes the state.  A behaviour
\* observes one event, its last: the observed step records the event, the
\* messages it wrote and the state before it, and the behaviour ends there.
\* Every reachable step is the observed step of some behaviour, so what holds
\* of the observed step holds of every step.
\* the pairs <<p, c>> of distinct connection ids that a room of rs lists together
Together(rs) ==
    {pc \in ConnIds \X ConnIds :
        pc[1] # pc[2] /\ \E r \in DOMAIN rs : {pc[1], pc[2]} \subseteq Members(rs[r])}

\* the pairs <<recipient, userId>> of the user-left messages in out
UserLeftPairs(out) ==
    {<<out[i].to, out[i].userId>> : i \in {j \in 1..Len(out) : out[j].type = "user-left"}}

\* the history of user-left messages after an event with result st
Notified(st) ==
    (notified \ (Together(st.rooms) \ Together(rooms)))
        \cup (UserLeftPairs(st.out) \cap (Together(rooms) \cup notified))

Dispatch(event, st) ==
    /\ last.type = "none"
    /\ phase # "exited"
    /\ events' = events + 1
    /\ rooms' = st.rooms
    /\ connections' = st.connections
    /\ closed' = IF event.type = "close" THEN closed \cup {event.clientId} ELSE closed
    /\ \/ /\ last' = event
          /\ sent' = st.out
          /\ pre' = [rooms |-> rooms, connections |-> connections,
                     db |-> db, tasks |-> tasks, notified |-> notified]
       \/ UNCHANGED <<last, sent, pre>>

\* an event whose user-left messages are not recorded
Observe(event, st) ==
    /\ events < MaxEvents
    /\ Dispatch(event, st)
    /\ UNCHANGED notified

\* an event of a server without a user directory that leaves the interval
\* timers ts scheduled
HandledTimers(event, st, ts) ==
    /\ Observe(event, st)
    /\ timers' = ts
    /\ UNCHANGED <<db, tasks, pings, phase>>

\* an event that sets and clears no timer
Handled(event, st) == HandledTimers(event, st, timers)

Receiving(c) == c \in DOMAIN connections /\ connections[c].ws = "OPEN"

\* the servers without a user directory never touch it
NoDirectory == [active |-> {}, status |-> EmptyMap]

Init ==
    /\ rooms = EmptyMap
    /\ connections = EmptyMap
    /\ nextId = 1
    /\ closed = {}
    /\ events = 0
    /\ last = [type |-> "none"]
    /\ sent = <<>>
    /\ pre = [rooms |-> EmptyMap, connections |-> EmptyMap,
              db |-> NoDirectory, tasks |-> EmptyBag, notified |-> {}]
    /\ notified = {}
    /\ db = NoDirectory
    /\ tasks = EmptyBag
    /\ timers = {}
    /\ pings = [c \in ConnIds |-> 0]
    /\ phase = "running"

\* wss.on('connection')
Connect ==
    /\ nextId <= MaxConns
    /\ phase = "running"
    /\ LET clientId == generateId
           st == [Cur EXCEPT !.connections =
                      MapSet(@, clientId, [ws |-> "OPEN", roomId |-> NoRoom])]
       IN  HandledTimers([type |-> "connection", clientId |-> clientId],
                         sendMessage(st, clientId,
                             [type |-> "connection-established", clientId |-> clientId]),
                         timers \cup {clientId})
    /\ nextId' = nextId + 1

JoinRoom(c, r) ==
    /\ Receiving(c)
    /\ Handled([type |-> "join-room", clientId |-> c, roomId |-> r],
               handleJoinRoom(Cur, c, r))
    /\ UNCHANGED nextId

LeaveRoom(c, r) ==
    /\ Receiving(c)
    /\ Handled([type |-> "leave-room", clientId |-> c, roomId |-> r],
               handleLeaveRoom(Cur, c, r))
    /\ UNCHANGED nextId

Offer(c, r, p) ==
    /\ Receiving(c)
    /\ Handled([type |-> "offer", clientId |-> c, roomId |-> r, offer |-> p],
               handleOffer(Cur, c, r, p))
    /\ UNCHANGED nextId

Answer(c, r, p) ==
    /\ Receiving(c)
    /\ Handled([type |-> "answer", clientId |-> c, roomId |-> r, answer |-> p],
               handleAnswer(Cur, c, r, p))
    /\ UNCHANGED nextId

IceCandidate(c, r, p) ==
    /\ Receiving(c)
    /\ Handled([type |-> "ice-candidate", clientId |-> c, roomId |-> r, candidate |-> p],
               handleIceCandidate(Cur, c, r, p))
    /\ UNCHANGED nextId

\* a ping that is answered to every registered connection
PingBroadcast(c) ==
    /\ Receiving(c)
    /\ Handled([type |-> "ping", clientId |-> c],
               [Cur EXCEPT !.out = [i \in 1..nextId - 1 |-> [to |-> i, type |-> "pong"]]])
    /\ UNCHANGED nextId

Ping(c) ==
    /\ Receiving(c)
    /\ Handled([type |-> "ping", clientId |-> c],
               sendMessage(Cur, c, [type |-> "pong"]))
    /\ UNCHANGED nextId

\* a frame whose type is none of the cases of the switch
UnknownType(c, t) ==
    /\ Receiving(c)
    /\ Handled([type |-> "unknown", clientId |-> c, frameType |-> t],
               defaultCase(Cur, c, t))
    /\ UNCHANGED nextId

\* an unparsable frame that also ends the connection
MalformedCloses(c) ==
    /\ Receiving(c)
    /\ Handled([type |-> "malformed", clientId |-> c],
               sendMessage([Cur EXCEPT !.connections[c].ws = "CLOSING"], c,
                   [type |-> "error", message |-> "Invalid message format"]))
    /\ UNCHANGED nextId

\* JSON.parse throws
Malformed(c) ==
    /\ Receiving(c)
    /\ Handled([type |-> "malformed", clientId |-> c],
               sendMessage(Cur, c, [type |-> "error", message |-> "Invalid message format"]))
    /\ UNCHANGED nextId

\* The transport stops being OPEN (closing handshake begun, or the socket
\* lost); its 'close' event has not been dispatched yet.
TransportClosing(c) ==
    /\ Receiving(c)
    /\ Handled([type |-> "closing", clientId |-> c],
               [Cur EXCEPT !.connections[c].ws = "CLOSING"])
    /\ UNCHANGED nextId

\* ws.on('error'): the handler only logs.  The ws library has taken the
\* transport out of the OPEN state when it emits 'error'; 'close' follows.
TransportError(c) ==
    /\ Receiving(c)
    /\ Handled([type |-> "error", clientId |-> c],
               [Cur EXCEPT !.connections[c].ws = "CLOSING"])
    /\ UNCHANGED nextId

\* ws.on('close')
Close(c) ==
    /\ c \in DOMAIN connections
    /\ Handled([type |-> "close", clientId |-> c],
               handleDisconnect([Cur EXCEPT !.connections[c].ws = "CLOSED"], c))
    /\ UNCHANGED nextId

Next ==
    \/ Connect
    \/ \E c \in ConnIds, r \in FrameRoomIds : JoinRoom(c, r)
    \/ \E c \in ConnIds, r \in FrameRoomIds : LeaveRoom(c, r)
    \/ \E c \in ConnIds, r \in FrameRoomIds, p \in Payloads : Offer(c, r, p)
    \/ \E c \in ConnIds, r \in FrameRoomIds, p \in Payloads : Answer(c, r, p)
    \/ \E c \in ConnIds, r \in FrameRoomIds, p \in Payloads : IceCandidate(c, r, p)
    \/ \E c \in ConnIds : Ping(c)
    \/ \E c \in ConnIds, t \in UnknownTypes : UnknownType(c, t)
    \/ \E c \in ConnIds : Malformed(c)
    \/ \E c \in ConnIds : TransportClosing(c)
    \/ \E c \in ConnIds : TransportError(c)
    \/ \E c \in ConnIds : Close(c)

Spec == Init /\ [][Next]_vars

(***************************************************************************)
(* The same handlers without an observed event, for what must eventually   *)
(* happen.  The frames a connection sends are bounded by MaxEvents; the    *)
(* 'close' event of a transport that has left the OPEN state is not: the   *)
(* ws library emits 'close' for every socket that errored or began to      *)
(* close, and the event loop runs its listener.                            *)
(***************************************************************************)
LiveStep(st) ==
    /\ rooms' = st.rooms
    /\ connections' = st.connections
    /\ UNCHANGED <<last, sent, pre, db, tasks, pings, phase, notified>>

Budgeted == events < MaxEvents /\ events' = events + 1

LiveConnect ==
    /\ nextId <= MaxConns
    /\ Budgeted
    /\ LiveStep([Cur EXCEPT !.connections =
                     MapSet(@, generateId, [ws |-> "OPEN", roomId |-> NoRoom])])
    /\ nextId' = nextId + 1
    /\ timers' = timers \cup {generateId}
    /\ UNCHANGED closed

\* ws.on('message'): any frame
LiveMessage(c) ==
    /\ Receiving(c)
    /\ Budgeted
    /\ \/ \E r \in FrameRoomIds : LiveStep(handleJoinRoom(Cur, c, r))
       \/ \E r \in FrameRoomIds : LiveStep(handleLeaveRoom(Cur, c, r))
       \/ \E r \in FrameRoomIds, p \in Payloads : LiveStep(handleOffer(Cur, c, r, p))
       \/ \E r \in FrameRoomIds, p \in Payloads : LiveStep(handleAnswer(Cur, c, r, p))
       \/ \E r \in FrameRoomIds, p \in Payloads : LiveStep(handleIceCandidate(Cur, c, r, p))
       \/ \E t \in UnknownTypes : LiveStep(defaultCase(Cur, c, t))
    /\ UNCHANGED <<nextId, closed, timers>>

\* ws.on('error'), or the closing handshake begins: nothing is cleaned up yet
LiveDown(c) ==
    /\ Receiving(c)
    /\ Budgeted
    /\ LiveStep([Cur EXCEPT !.connections[c].ws = "CLOSING"])
    /\ UNCHANGED <<nextId, closed, timers>>

\* ws.on('close') of a transport that is no longer OPEN
LiveClose(c) ==
    /\ c \in DOMAIN connections
    /\ connections[c].ws = "CLOSING"
    /\ LiveStep(handleDisconnect([Cur EXCEPT !.connections[c].ws = "CLOSED"], c))
    /\ closed' = closed \cup {c}
    /\ UNCHANGED <<nextId, events, timers>>

NextLive ==
    \/ LiveConnect
    \/ \E c \in ConnIds : LiveMessage(c)
    \/ \E c \in ConnIds : LiveDown(c)
    \/ \E c \in ConnIds : LiveClose(c)

SpecLive ==
    Init /\ [][NextLive]_vars /\ \A c \in ConnIds : WF_vars(LiveClose(c))

(***************************************************************************)
(* Vocabulary of the properties.                                           *)
(***************************************************************************)
\* c's id is in the member set of the registered room r
InRoom(rs, c, r) == r \in DOMAIN rs /\ c \in Members(rs[r])

Pointer(cs, c) == IF c \in DOMAIN cs THEN cs[c].roomId ELSE NoRoom

IsOpen(cs, c) == c \in DOMAIN cs /\ cs[c].ws = "OPEN"

(***************************************************************************)
(* The server of src/unnamed/part_001, lines 835-1283.  It differs from    *)
(* src/server.js in that join-room trims the room id and leaves the        *)
(* previous room before anything else, the relay handlers test the         *)
(* sender's membership and the payload, the 'error' listener runs          *)
(* handleDisconnect too, and a timer sweeps empty rooms.  Its definitions  *)
(* carry the suffix Trim.                                                  *)
(*                                                                         *)
(* Room ids as the frames carry them: NoRoom is undefined, EmptyStr is "",  *)
(* Blank is a string of white space, r in TrimRoomIds is a trimmed id and  *)
(* Padded(r) is r with white space around it.                              *)
(***************************************************************************)
TrimRoomIds == 1..MaxTrimRooms
EmptyStr == MaxTrimRooms + 1
Blank == EmptyStr + 1
Padded(r) == Blank + r
RawRoomIds == {NoRoom, EmptyStr, Blank} \cup TrimRoomIds \cup {Padded(r) : r \in TrimRoomIds}
NoPayload == "undefined"
TrimPayloads == {"sdpA", NoPayload}

\* roomId.toString().trim()
trim(roomId) ==
    IF roomId = Blank THEN EmptyStr
    ELSE IF roomId > Blank THEN roomId - Blank
    ELSE roomId

\* !roomId
Falsy(roomId) == roomId \in {NoRoom, EmptyStr}

handleLeaveRoomTrim(st, clientId, roomId) ==
    IF clientId \notin DOMAIN st.connections THEN st
    ELSE IF roomId \notin DOMAIN st.rooms THEN st
    ELSE
        LET room == SetDelete(st.rooms[roomId], clientId)
            st1 == [st EXCEPT !.connections[clientId].roomId = NoRoom,
                              !.rooms = MapSet(@, roomId, room)]
        IN  IF Len(room) > 0
            THEN IF room[1] \in DOMAIN st1.connections
                 THEN sendMessage(st1, room[1],
                          [type |-> "user-left", userId |-> clientId,
                           participantCount |-> Len(room)])
                 ELSE st1
            ELSE [st1 EXCEPT !.rooms = MapDelete(@, roomId)]

handleJoinRoomTrim(st, clientId, rawRoomId) ==
    IF Falsy(rawRoomId)
    THEN sendMessage(st, clientId, [type |-> "error", message |-> "Room ID is required"])
    ELSE
        LET roomId == trim(rawRoomId)
            known == clientId \in DOMAIN st.connections
            old == IF known THEN st.connections[clientId].roomId ELSE NoRoom
            st1 == IF known /\ ~Falsy(old) THEN handleLeaveRoomTrim(st, clientId, old) ELSE st
            st2 == IF roomId \notin DOMAIN st1.rooms
                   THEN [st1 EXCEPT !.rooms = MapSet(@, roomId, <<>>)]
                   ELSE st1
        IN  IF Len(st2.rooms[roomId]) >= 2
            THEN sendMessage(st2, clientId,
                     [type |-> "error", message |-> "Room is full (maximum 2 participants)"])
            ELSE
                LET room == SetAdd(st2.rooms[roomId], clientId)
                    st3 == [st2 EXCEPT !.rooms = MapSet(@, roomId, room)]
                    st4 == IF known THEN [st3 EXCEPT !.connections[clientId].roomId = roomId]
                           ELSE st3
                    st5 == sendMessage(st4, clientId,
                               [type |-> "room-joined", roomId |-> roomId,
                                participantCount |-> Len(room)])
                    other == FindOther(room, clientId)
                IN  IF Len(room) = 2 /\ IsOpen(st5.connections, other)
                    THEN sendMessage(
                             sendMessage(st5, other,
                                 [type |-> "user-joined", userId |-> clientId,
                                  participantCount |-> Len(room)]),
                             clientId,
                             [type |-> "room-ready", participantCount |-> Len(room)])
                    ELSE st5

\* the checks the three relay handlers share: the result is the peer to
\* forward to, or NoConn
relayTargetTrim(st, clientId, roomId, payload) ==
    IF payload = NoPayload THEN NoConn
    ELSE IF roomId \notin DOMAIN st.rooms THEN NoConn
    ELSE IF clientId \notin Members(st.rooms[roomId]) THEN NoConn
    ELSE LET otherClientId == FindOther(st.rooms[roomId], clientId)
         IN  IF IsOpen(st.connections, otherClientId) THEN otherClientId ELSE NoConn

handleOfferTrim(st, clientId, roomId, offer) ==
    LET otherClientId == relayTargetTrim(st, clientId, roomId, offer)
    IN  IF otherClientId = NoConn THEN st
        ELSE sendMessage(st, otherClientId,
                 [type |-> "offer", offer |-> offer, fromUserId |-> clientId])

handleAnswerTrim(st, clientId, roomId, answer) ==
    LET otherClientId == relayTargetTrim(st, clientId, roomId, answer)
    IN  IF otherClientId = NoConn THEN st
        ELSE sendMessage(st, otherClientId,
                 [type |-> "answer", answer |-> answer, fromUserId |-> clientId])

handleIceCandidateTrim(st, clientId, roomId, candidate) ==
    LET otherClientId == relayTargetTrim(st, clientId, roomId, candidate)
    IN  IF otherClientId = NoConn THEN st
        ELSE sendMessage(st, otherClientId,
                 [type |-> "ice-candidate", candidate |-> candidate,
                  fromUserId |-> clientId])

\* handleDisconnect telling every registered connection of the departure
handleDisconnectTrimAnnounces(st, clientId) ==
    LET known == clientId \in DOMAIN st.connections
        st1 == IF known /\ ~Falsy(st.connections[clientId].roomId)
               THEN handleLeaveRoomTrim(st, clientId, st.connections[clientId].roomId)
               ELSE st
        st2 == [st1 EXCEPT !.connections = MapDelete(@, clientId)]
    IN  IF DOMAIN st2.connections = {} THEN st2
        ELSE sendMessage(st2, CHOOSE d \in DOMAIN st2.connections : TRUE,
                 [type |-> "user-left", userId |-> clientId, participantCount |-> NoConn])

handleDisconnectTrim(st, clientId) ==
    LET known == clientId \in DOMAIN st.connections
        st1 == IF known /\ ~Falsy(st.connections[clientId].roomId)
               THEN handleLeaveRoomTrim(st, clientId, st.connections[clientId].roomId)
               ELSE st
    IN  [st1 EXCEPT !.connections = MapDelete(@, clientId)]

\* cleanupRooms, run by a timer
cleanupRooms(st) ==
    [st EXCEPT !.rooms = [r \in {x \in DOMAIN st.rooms : Len(st.rooms[x]) # 0} |-> st.rooms[r]]]

\* the events of a behaviour of this server are bounded by MaxTrimEvents
TrimBudget == events < MaxTrimEvents

ConnectTrim ==
    /\ TrimBudget
    /\ nextId <= MaxConns
    /\ LET clientId == generateId
           st == [Cur EXCEPT !.connections =
                      MapSet(@, clientId, [ws |-> "OPEN", roomId |-> NoRoom])]
       IN  HandledTimers([type |-> "connection", clientId |-> clientId],
                         sendMessage(st, clientId, [type |-> "client-id", clientId |-> clientId]),
                         timers \cup {clientId})
    /\ nextId' = nextId + 1

JoinRoomTrim(c, r) ==
    /\ TrimBudget
    /\ Receiving(c)
    /\ Handled([type |-> "join-room", clientId |-> c, roomId |-> r],
               handleJoinRoomTrim(Cur, c, r))
    /\ UNCHANGED nextId

LeaveRoomTrim(c, r) ==
    /\ TrimBudget
    /\ Receiving(c)
    /\ Handled([type |-> "leave-room", clientId |-> c, roomId |-> r],
               handleLeaveRoomTrim(Cur, c, r))
    /\ UNCHANGED nextId

OfferTrim(c, r, p) ==
    /\ TrimBudget
    /\ Receiving(c)
    /\ Handled([type |-> "offer", clientId |-> c, roomId |-> r, offer |-> p],
               handleOfferTrim(Cur, c, r, p))
    /\ UNCHANGED nextId

AnswerTrim(c, r, p) ==
    /\ TrimBudget
    /\ Receiving(c)
    /\ Handled([type |-> "answer", clientId |-> c, roomId |-> r, answer |-> p],
               handleAnswerTrim(Cur, c, r, p))
    /\ UNCHANGED nextId

IceCandidateTrim(c, r, p) ==
    /\ TrimBudget
    /\ Receiving(c)
    /\ Handled([type |-> "ice-candidate", clientId |-> c, roomId |-> r, candidate |-> p],
               handleIceCandidateTrim(Cur, c, r, p))
    /\ UNCHANGED nextId

\* ping, a frame of unknown type, an unparsable frame: one reply to the sender
ReplyTrim(c) ==
    /\ TrimBudget
    /\ Receiving(c)
    /\ \/ Handled([type |-> "ping", clientId |-> c],
                  sendMessage(Cur, c, [type |-> "pong"]))
       \/ \E t \in UnknownTypes :
              Handled([type |-> "unknown", clientId |-> c, frameType |-> t],
                      defaultCase(Cur, c, t))
       \/ Handled([type |-> "malformed", clientId |-> c],
                  sendMessage(Cur, c, [type |-> "error", message |-> "Invalid message format"]))
    /\ UNCHANGED nextId

\* the closing handshake begins; no listener of the server runs
TransportClosingTrim(c) ==
    /\ TrimBudget
    /\ Receiving(c)
    /\ Handled([type |-> "closing", clientId |-> c],
               [Cur EXCEPT !.connections[c].ws = "CLOSING"])
    /\ UNCHANGED nextId

\* ws.on('error'): handleDisconnect runs; the 'close' event is still to come
ErrorTrim(c) ==
    /\ TrimBudget
    /\ Receiving(c)
    /\ HandledTimers([type |-> "error", clientId |-> c],
                     handleDisconnectTrim([Cur EXCEPT !.connections[c].ws = "CLOSING"], c),
                     timers \ {c})
    /\ UNCHANGED nextId

\* ws.on('close'), once per transport: handleDisconnect runs, for the second
\* time if the transport had errored
CloseTrim(c) ==
    /\ TrimBudget
    /\ c \in 1..(nextId - 1)
    /\ c \notin closed
    /\ HandledTimers([type |-> "close", clientId |-> c],
                     handleDisconnectTrim(
                         IF c \in DOMAIN connections
                         THEN [Cur EXCEPT !.connections[c].ws = "CLOSED"]
                         ELSE Cur, c),
                     timers \ {c})
    /\ UNCHANGED nextId

\* setInterval(cleanupRooms, 30000)
CleanupRoomsTrim ==
    /\ TrimBudget
    /\ Handled([type |-> "cleanup"], cleanupRooms(Cur))
    /\ UNCHANGED nextId

NextTrim ==
    \/ ConnectTrim
    \/ \E c \in ConnIds, r \in RawRoomIds : JoinRoomTrim(c, r)
    \/ \E c \in ConnIds, r \in RawRoomIds : LeaveRoomTrim(c, r)
    \/ \E c \in ConnIds, r \in RawRoomIds, p \in TrimPayloads : OfferTrim(c, r, p)
    \/ \E c \in ConnIds, r \in RawRoomIds, p \in TrimPayloads : AnswerTrim(c, r, p)
    \/ \E c \in ConnIds, r \in RawRoomIds, p \in TrimPayloads : IceCandidateTrim(c, r, p)
    \/ \E c \in ConnIds : ReplyTrim(c)
    \/ \E c \in ConnIds : TransportClosingTrim(c)
    \/ \E c \in ConnIds : ErrorTrim(c)
    \/ \E c \in ConnIds : CloseTrim(c)
    \/ CleanupRoomsTrim

SpecTrim == Init /\ [][NextTrim]_vars

\* ---------------------------------------------------------------------------
\* The server with a user directory (src/unnamed/part_001 1-480 with the
\* UserDatabase of src/unnamed/part_000).  Its message, close and auth
\* handlers are async: each runs up to its next await, is suspended in
\* 'tasks', and resumes in a later step when the directory has answered.
\* ---------------------------------------------------------------------------
AuthConnIds == 1..MaxAuthConns

\* the users table, which the WebSocket side never inserts into or deletes from
Users == {"alice"}

NoUser == "undefined"

\* data.userId of an auth frame: absent, a user of the table, an id of no user
FrameUserIds == {NoUser, "alice", "nobody"}

AuthRoomIds == {NoRoom, 1}

AuthBudget == events < MaxAuthEvents

CurAuth ==
    [rooms |-> rooms, connections |-> connections, out |-> <<>>,
     db |-> db, tasks |-> tasks]

HandledAuth(event, st) ==
    /\ Dispatch(event, st)
    /\ UNCHANGED notified
    /\ db' = st.db
    /\ tasks' = st.tasks
    /\ UNCHANGED <<timers, pings, phase>>

\* an async function reaches an await / resumes from it
Suspend(st, task) == [st EXCEPT !.tasks = @ (+) SetToBag({task})]
Resume(st, task) == [st EXCEPT !.tasks = @ (-) SetToBag({task})]

Awaiting(kind, clientId, userId, pc) ==
    [kind |-> kind, clientId |-> clientId, userId |-> userId, pc |-> pc]

\* SELECT * FROM users WHERE id = ?
getUserById(d, userId) == IF userId \in DOMAIN d.status THEN userId ELSE NoUser

\* UPDATE users SET status = ? WHERE id = ?
updateUserStatus(d, userId, status) ==
    IF userId \in DOMAIN d.status
    THEN [d EXCEPT !.status[userId] = status]
    ELSE d

\* addConnection, first statement: DELETE FROM active_connections WHERE user_id = ?
addConnectionDelete(d, userId) ==
    [d EXCEPT !.active = {row \in @ : row.userId # userId}]

\* socket_id TEXT NOT NULL UNIQUE
SocketTaken(d, socketId) == \E row \in d.active : row.socketId = socketId

\* addConnection, second statement: INSERT INTO active_connections
addConnectionInsert(d, userId, socketId) ==
    [d EXCEPT !.active = @ \cup {[userId |-> userId, socketId |-> socketId]}]

\* DELETE FROM active_connections WHERE socket_id = ?
removeConnection(d, socketId) ==
    [d EXCEPT !.active = {row \in @ : row.socketId # socketId}]

\* handleAuth up to 'await db.getUserById(userId)'
handleAuth(st, clientId, userId) ==
    IF userId = NoUser
    THEN sendMessage(st, clientId, [type |-> "error", message |-> "User ID required"])
    ELSE Suspend(st, Awaiting("handleAuth", clientId, userId, "getUserById"))

\* handleAuth that binds the identity before it has looked the user up
handleAuthGotUserBindsFirst(st, t) ==
    LET s0 == Resume(st, t)
        s1 == IF t.clientId \in DOMAIN s0.connections
              THEN [s0 EXCEPT !.connections[t.clientId].userId = t.userId]
              ELSE s0
    IN  IF getUserById(st.db, t.userId) = NoUser
        THEN sendMessage(s1, t.clientId, [type |-> "error", message |-> "User not found"])
        ELSE Suspend(s1, [t EXCEPT !.pc = "addConnection.delete"])

\* handleAuth from the directory's answer up to the first await of addConnection
handleAuthGotUser(st, t) ==
    LET s0 == Resume(st, t)
        s1 == IF t.clientId \in DOMAIN s0.connections
              THEN [s0 EXCEPT !.connections[t.clientId].userId = t.userId]
              ELSE s0
    IN  IF getUserById(st.db, t.userId) = NoUser
        THEN sendMessage(s0, t.clientId, [type |-> "error", message |-> "User not found"])
        ELSE Suspend(s1, [t EXCEPT !.pc = "addConnection.delete"])

\* addConnection between its two statements
handleAuthDeleted(st, t) ==
    Suspend([Resume(st, t) EXCEPT !.db = addConnectionDelete(@, t.userId)],
            [t EXCEPT !.pc = "addConnection.insert"])

\* the INSERT has run: a taken socket_id rejects and handleAuth's catch replies
handleAuthInserted(st, t) ==
    IF SocketTaken(st.db, t.clientId)
    THEN sendMessage(Resume(st, t), t.clientId,
                     [type |-> "error", message |-> "Authentication failed"])
    ELSE Suspend([Resume(st, t) EXCEPT !.db = addConnectionInsert(@, t.userId, t.clientId)],
                 [t EXCEPT !.pc = "updateUserStatus"])

\* handleAuth from the answer of updateUserStatus(userId, 'online') to its end
handleAuthOnline(st, t) ==
    sendMessage([Resume(st, t) EXCEPT !.db = updateUserStatus(@, t.userId, "online")],
                t.clientId, [type |-> "auth-success", user |-> t.userId])

\* handleDisconnect up to 'await db.removeConnection(clientId)'
handleDisconnectAuth(st, clientId) ==
    IF clientId \notin DOMAIN st.connections
    THEN st
    ELSE LET roomId == st.connections[clientId].roomId
             s1 == IF roomId # NoRoom THEN handleLeaveRoom(st, clientId, roomId) ELSE st
         IN  IF s1.connections[clientId].userId # NoUser
             THEN Suspend(s1, Awaiting("handleDisconnect", clientId, NoUser, "removeConnection"))
             ELSE [s1 EXCEPT !.connections = MapDelete(@, clientId)]

\* handleDisconnect between removeConnection and updateUserStatus: the argument
\* clientInfo.userId is read now, from the record the handler holds
handleDisconnectRemoved(st, t) ==
    Suspend([Resume(st, t) EXCEPT !.db = removeConnection(@, t.clientId)],
            [t EXCEPT !.pc = "updateUserStatus",
                      !.userId = st.connections[t.clientId].userId])

\* handleDisconnect from the answer of updateUserStatus(.., 'offline') to its end
handleDisconnectOffline(st, t) ==
    [Resume(st, t) EXCEPT !.db = updateUserStatus(@, t.userId, "offline"),
                          !.connections = MapDelete(@, t.clientId)]

Pending(kind, pc) == {t \in BagToSet(tasks) : t.kind = kind /\ t.pc = pc}

\* wss.on('connection')
ConnectAuth ==
    /\ nextId <= MaxAuthConns
    /\ LET clientId == generateId
           st == [CurAuth EXCEPT !.connections =
                      MapSet(@, clientId,
                             [ws |-> "OPEN", roomId |-> NoRoom, userId |-> NoUser])]
       IN  HandledAuth([type |-> "connection", clientId |-> clientId],
                       sendMessage(st, clientId,
                           [type |-> "connection-established", clientId |-> clientId]))
    /\ nextId' = nextId + 1

\* case 'auth'
Auth(c, u) ==
    /\ Receiving(c)
    /\ HandledAuth([type |-> "auth", clientId |-> c, userId |-> u],
                   handleAuth(CurAuth, c, u))
    /\ UNCHANGED nextId

\* case 'join-room'; the room handlers are those of src/server.js, which this
\* file says stay the same
JoinRoomAuth(c, r) ==
    /\ Receiving(c)
    /\ HandledAuth([type |-> "join-room", clientId |-> c, roomId |-> r],
                   handleJoinRoom(CurAuth, c, r))
    /\ UNCHANGED nextId

\* case 'leave-room'
LeaveRoomAuth(c, r) ==
    /\ Receiving(c)
    /\ HandledAuth([type |-> "leave-room", clientId |-> c, roomId |-> r],
                   handleLeaveRoom(CurAuth, c, r))
    /\ UNCHANGED nextId

\* default: an unknown type is logged, nothing is sent
OtherAuth(c) ==
    /\ Receiving(c)
    /\ HandledAuth([type |-> "unknown", clientId |-> c], CurAuth)
    /\ UNCHANGED nextId

\* the directory answers getUserById
GotUser(t) ==
    /\ t \in Pending("handleAuth", "getUserById")
    /\ HandledAuth([type |-> "auth.getUserById", clientId |-> t.clientId, userId |-> t.userId],
                   handleAuthGotUser(CurAuth, t))
    /\ UNCHANGED nextId

\* the DELETE of addConnection has run
Deleted(t) ==
    /\ t \in Pending("handleAuth", "addConnection.delete")
    /\ HandledAuth([type |-> "auth.delete", clientId |-> t.clientId, userId |-> t.userId],
                   handleAuthDeleted(CurAuth, t))
    /\ UNCHANGED nextId

\* the INSERT of addConnection has run or was rejected
Inserted(t) ==
    /\ t \in Pending("handleAuth", "addConnection.insert")
    /\ HandledAuth([type |-> "auth.insert", clientId |-> t.clientId, userId |-> t.userId],
                   handleAuthInserted(CurAuth, t))
    /\ UNCHANGED nextId

\* updateUserStatus(userId, 'online') has run
Online(t) ==
    /\ t \in Pending("handleAuth", "updateUserStatus")
    /\ HandledAuth([type |-> "auth.online", clientId |-> t.clientId, userId |-> t.userId],
                   handleAuthOnline(CurAuth, t))
    /\ UNCHANGED nextId

\* ws.on('error'): logged only
ErrorAuth(c) ==
    /\ Receiving(c)
    /\ HandledAuth([type |-> "error", clientId |-> c],
                   [CurAuth EXCEPT !.connections[c].ws = "CLOSING"])
    /\ UNCHANGED nextId

\* ws.on('close'), once per connection
CloseAuth(c) ==
    /\ c \in DOMAIN connections
    /\ c \notin closed
    /\ HandledAuth([type |-> "close", clientId |-> c],
                   handleDisconnectAuth([CurAuth EXCEPT !.connections[c].ws = "CLOSED"], c))
    /\ UNCHANGED nextId

\* removeConnection(clientId) has run
Removed(t) ==
    /\ t \in Pending("handleDisconnect", "removeConnection")
    /\ HandledAuth([type |-> "close.removeConnection", clientId |-> t.clientId],
                   handleDisconnectRemoved(CurAuth, t))
    /\ UNCHANGED nextId

\* updateUserStatus(userId, 'offline') has run
Offline(t) ==
    /\ t \in Pending("handleDisconnect", "updateUserStatus")
    /\ HandledAuth([type |-> "close.offline", clientId |-> t.clientId],
                   handleDisconnectOffline(CurAuth, t))
    /\ UNCHANGED nextId

\* a registered user is 'online' from createUser and 'offline' after a logout
InitAuth ==
    /\ rooms = EmptyMap
    /\ connections = EmptyMap
    /\ nextId = 1
    /\ closed = {}
    /\ events = 0
    /\ last = [type |-> "none"]
    /\ sent = <<>>
    /\ db \in {[active |-> {}, status |-> [u \in Users |-> s]] : s \in {"online", "offline"}}
    /\ tasks = EmptyBag
    /\ timers = {}
    /\ pings = [c \in ConnIds |-> 0]
    /\ phase = "running"
    /\ pre = [rooms |-> EmptyMap, connections |-> EmptyMap,
              db |-> NoDirectory, tasks |-> EmptyBag, notified |-> {}]
    /\ notified = {}

NextAuth ==
    \/ ConnectAuth /\ AuthBudget
    \/ \E c \in AuthConnIds, u \in FrameUserIds : Auth(c, u) /\ AuthBudget
    \/ \E c \in AuthConnIds, r \in AuthRoomIds : JoinRoomAuth(c, r) /\ AuthBudget
    \/ \E c \in AuthConnIds, r \in AuthRoomIds : LeaveRoomAuth(c, r) /\ AuthBudget
    \/ \E c \in AuthConnIds : OtherAuth(c) /\ AuthBudget
    \/ \E t \in BagToSet(tasks) : GotUser(t) /\ AuthBudget
    \/ \E t \in BagToSet(tasks) : Deleted(t) /\ AuthBudget
    \/ \E t \in BagToSet(tasks) : Inserted(t) /\ AuthBudget
    \/ \E t \in BagToSet(tasks) : Online(t) /\ AuthBudget
    \/ \E c \in AuthConnIds : ErrorAuth(c) /\ AuthBudget
    \/ \E c \in AuthConnIds : CloseAuth(c) /\ AuthBudget
    \/ \E t \in BagToSet(tasks) : Removed(t) /\ AuthBudget
    \/ \E t \in BagToSet(tasks) : Offline(t) /\ AuthBudget

SpecAuth == InitAuth /\ [][NextAuth]_vars

\* The same server when every auth frame names a user of the directory: the
\* connections, their auth frames and their closes, over longer runs.
UsersBudget == events < MaxUserEvents

NextUsers ==
    \/ ConnectAuth /\ UsersBudget
    \/ \E c \in AuthConnIds, u \in Users : Auth(c, u) /\ UsersBudget
    \/ \E t \in BagToSet(tasks) : GotUser(t) /\ UsersBudget
    \/ \E t \in BagToSet(tasks) : Deleted(t) /\ UsersBudget
    \/ \E t \in BagToSet(tasks) : Inserted(t) /\ UsersBudget
    \/ \E t \in BagToSet(tasks) : Online(t) /\ UsersBudget
    \/ \E c \in AuthConnIds : CloseAuth(c) /\ UsersBudget
    \/ \E t \in BagToSet(tasks) : Removed(t) /\ UsersBudget
    \/ \E t \in BagToSet(tasks) : Offline(t) /\ UsersBudget

SpecUsers == InitAuth /\ [][NextUsers]_vars

\* ---------------------------------------------------------------------------
\* src/server.js as a process: the per-connection keepalive timers and the
\* SIGTERM / SIGINT listeners, next to the events that open and close
\* transports.
\* ---------------------------------------------------------------------------
ProcBudget == events < MaxProcEvents

\* an event of the process: timers ts stay scheduled, ps pings are unanswered
HandledProc(event, st, ts, ps, ph) ==
    /\ ProcBudget
    /\ Observe(event, st)
    /\ timers' = ts
    /\ pings' = ps
    /\ phase' = ph
    /\ UNCHANGED <<db, tasks, nextId>>

\* a keepalive callback that terminates a transport which missed a pong
pingIntervalTerminates(st, c) ==
    IF IsOpen(st.connections, c) /\ pings[c] > 0
    THEN handleDisconnect([st EXCEPT !.connections[c].ws = "CLOSED"], c)
    ELSE st

\* the body of the setInterval callback changes neither map
pingInterval(st, c) == st

\* the pingInterval callback of connection c fires: ws.ping() on an open
\* transport, clearInterval otherwise
PingTick(c) ==
    /\ c \in timers
    /\ IsOpen(connections, c) => pings[c] < MaxMissed
    /\ HandledProc([type |-> "ping-tick", clientId |-> c],
                   pingInterval(Cur, c),
                   IF IsOpen(connections, c) THEN timers ELSE timers \ {c},
                   IF IsOpen(connections, c) THEN [pings EXCEPT ![c] = @ + 1] ELSE pings,
                   phase)

\* ws.on('pong'): logged only
Pong(c) ==
    /\ Receiving(c)
    /\ pings[c] > 0
    /\ HandledProc([type |-> "pong", clientId |-> c], Cur,
                   timers, [pings EXCEPT ![c] = @ - 1], phase)

\* what wss.close() does to the transports depends on the version of the ws
\* library, which the repository does not pin: it terminates every client
\* (ws 7 and earlier) or leaves the clients alone (ws 8)
WssCloseOutcomes == {"terminates", "keeps"}

wssClose(st, outcome) ==
    IF outcome = "terminates"
    THEN [st EXCEPT !.connections =
              [c \in DOMAIN @ |-> IF @[c].ws = "CLOSED" THEN @[c]
                                  ELSE [@[c] EXCEPT !.ws = "CLOSING"]]]
    ELSE st

\* the body of the SIGTERM and SIGINT listeners up to the callback
shutdown(st, outcome) == wssClose(st, outcome)

Signals == {"SIGTERM", "SIGINT"}

\* process.on('SIGTERM' / 'SIGINT')
Shutdown(sig, outcome) ==
    /\ phase = "running"
    /\ HandledProc([type |-> sig], shutdown(Cur, outcome), timers, pings, "closing")

\* the callback of wss.close: every transport has ended, process.exit(0)
Exit ==
    /\ phase = "closing"
    /\ \A c \in 1..(nextId - 1) : c \in closed
    /\ HandledProc([type |-> "exit"], Cur, {}, pings, "exited")

NextProc ==
    \/ Connect /\ ProcBudget
    \/ \E c \in ConnIds, r \in FrameRoomIds : JoinRoom(c, r) /\ ProcBudget
    \/ \E c \in ConnIds : TransportError(c) /\ ProcBudget
    \/ \E c \in ConnIds : Close(c) /\ ProcBudget
    \/ \E c \in ConnIds : PingTick(c)
    \/ \E c \in ConnIds : Pong(c)
    \/ \E sig \in Signals, outcome \in WssCloseOutcomes : Shutdown(sig, outcome)
    \/ Exit

SpecProc == Init /\ [][NextProc]_vars

\* ---------------------------------------------------------------------------
\* src/server.js with the ids that generateId can return.  Math.random() is
\* not constrained by what it returned before, so the id of a new connection
\* is any id; Connect above takes the case that the id is fresh.
\* ---------------------------------------------------------------------------
IdsBudget == events < MaxIdEvents

\* the values of Math.random().toString(36).substr(2, 9)
RandomIds == ConnIds

\* wss.on('connection') with clientId = generateId() returning id:
\* connections.set replaces whatever record the id had
ConnectRandom(id) ==
    /\ IdsBudget
    /\ nextId <= MaxConns
    /\ phase = "running"
    /\ LET st == [Cur EXCEPT !.connections =
                      MapSet(@, id, [ws |-> "OPEN", roomId |-> NoRoom])]
       IN  HandledTimers([type |-> "connection", clientId |-> id],
                         sendMessage(st, id,
                             [type |-> "connection-established", clientId |-> id]),
                         timers \cup {id})
    /\ nextId' = nextId + 1

NextIds ==
    \/ \E id \in RandomIds : ConnectRandom(id)
    \/ \E c \in ConnIds, r \in FrameRoomIds : JoinRoom(c, r) /\ IdsBudget
    \/ \E c \in ConnIds, r \in FrameRoomIds : LeaveRoom(c, r) /\ IdsBudget
    \/ \E c \in ConnIds : Close(c) /\ IdsBudget

SpecIds == Init /\ [][NextIds]_vars

\* ---------------------------------------------------------------------------
\* src/server.js with the history of its user-left messages: joins, leaves
\* and closes, each recording in 'notified' whom it told of whose departure.
\* ---------------------------------------------------------------------------
NotifyBudget == events < MaxNotifyEvents

HandledNotify(event, st, ts) ==
    /\ NotifyBudget
    /\ Dispatch(event, st)
    /\ notified' = Notified(st)
    /\ timers' = ts
    /\ UNCHANGED <<db, tasks, pings, phase>>

ConnectNotify ==
    /\ nextId <= MaxConns
    /\ LET clientId == generateId
           st == [Cur EXCEPT !.connections =
                      MapSet(@, clientId, [ws |-> "OPEN", roomId |-> NoRoom])]
       IN  HandledNotify([type |-> "connection", clientId |-> clientId],
                         sendMessage(st, clientId,
                             [type |-> "connection-established", clientId |-> clientId]),
                         timers \cup {clientId})
    /\ nextId' = nextId + 1

JoinRoomNotify(c, r) ==
    /\ Receiving(c)
    /\ HandledNotify([type |-> "join-room", clientId |-> c, roomId |-> r],
                     handleJoinRoom(Cur, c, r), timers)
    /\ UNCHANGED nextId

LeaveRoomNotify(c, r) ==
    /\ Receiving(c)
    /\ HandledNotify([type |-> "leave-room", clientId |-> c, roomId |-> r],
                     handleLeaveRoom(Cur, c, r), timers)
    /\ UNCHANGED nextId

CloseNotify(c) ==
    /\ c \in DOMAIN connections
    /\ HandledNotify([type |-> "close", clientId |-> c],
                     handleDisconnect([Cur EXCEPT !.connections[c].ws = "CLOSED"], c),
                     timers)
    /\ UNCHANGED nextId

NextNotify ==
    \/ ConnectNotify
    \/ \E c \in ConnIds, r \in FrameRoomIds : JoinRoomNotify(c, r)
    \/ \E c \in ConnIds, r \in FrameRoomIds : LeaveRoomNotify(c, r)
    \/ \E c \in ConnIds : CloseNotify(c)

SpecNotify == Init /\ [][NextNotify]_vars

Observed(type) == last.type = type

\* the messages of the observed event that went to connection c
SentTo(c) == SelectSeq(sent, LAMBDA m : m.to = c)

StateUnchanged == rooms = pre.rooms /\ connections = pre.connections

(***************************************************************************)
(* C1.  After every handled event, for every registered connection c and   *)
(* every room id r: c's room pointer is r if and only if the registered    *)
(* room r exists and contains c's id.                                      *)
(***************************************************************************)
C1_PointerIffMember ==
    \A c \in DOMAIN connections : \A r \in RoomIds :
        (connections[c].roomId = r) <=> InRoom(rooms, c, r)

(***************************************************************************)
(* C2.  In every reachable state every registered room has at most two     *)
(* members.                                                                *)
(***************************************************************************)
C2_AtMostTwoMembers ==
    \A r \in DOMAIN rooms : Len(rooms[r]) <= 2 /\ Cardinality(Members(rooms[r])) <= 2

\* a room holds two members and a join-room of a third connection for it has
\* just been handled
C2_Witness ==
    /\ Observed("join-room")
    /\ last.roomId \in DOMAIN rooms
    /\ Len(rooms[last.roomId]) = 2
    /\ last.clientId \notin Members(rooms[last.roomId])
    /\ Len(pre.rooms[last.roomId]) = 2

\* the observed event's connection and room id
Who == last.clientId

Where == last.roomId

UserLeftTo(p, c) ==
    SelectSeq(sent, LAMBDA m : m.to = p /\ m.type = "user-left" /\ m.userId = c)

Confirmed(c, r) ==
    \E i \in 1..Len(sent) :
        sent[i].to = c /\ sent[i].type = "room-joined" /\ sent[i].roomId = r

ErrorsTo(c) == SelectSeq(sent, LAMBDA m : m.to = c /\ m.type = "error")

\* c was the only member of room r before the observed event and the event
\* is c leaving r or c disconnecting
LastMemberGoes(r) ==
    /\ Observed("leave-room") \/ Observed("close")
    /\ r \in DOMAIN pre.rooms
    /\ Members(pre.rooms[r]) = {Who}
    /\ Observed("leave-room") => Where = r

(***************************************************************************)
(* C3.  After every handled event no room with zero members is in the      *)
(* rooms map: a room a join creates holds a member when the join ends, and *)
(* a room is deleted in the very event in which its last member leaves or  *)
(* disconnects.                                                            *)
(***************************************************************************)
C3_NoEmptyRoom ==
    /\ \A r \in DOMAIN rooms : Len(rooms[r]) > 0
    /\ ~Observed("none") =>
           \A r \in (DOMAIN rooms) \ (DOMAIN pre.rooms) :
               Observed("join-room") /\ Where = r
    /\ \A r \in RoomIds : LastMemberGoes(r) => r \notin DOMAIN rooms

(***************************************************************************)
(* C4.  Once handleDisconnect(c) has completed, c is absent from the       *)
(* connection registry and c's id is a member of no registered room.       *)
(***************************************************************************)
C4_DisconnectLeavesNothing ==
    Observed("close") =>
        /\ Who \notin DOMAIN connections
        /\ \A r \in DOMAIN rooms : Who \notin Members(rooms[r])

(***************************************************************************)
(* C5.  A leave-room frame naming a room that does not contain the sender  *)
(* is a no-op: nothing is sent to any connection, no room's membership and *)
(* no connection's room pointer changes.                                   *)
(***************************************************************************)
C5_ForeignLeaveIsNoOp ==
    (Observed("leave-room") /\ ~InRoom(pre.rooms, Who, Where)) =>
        sent = <<>> /\ StateUnchanged

(***************************************************************************)
(* C6.  In src/server.js a join-room naming a room that already has two    *)
(* members is answered with an error reply to the joiner and changes no    *)
(* state: rooms and room pointers stay as they were and no other           *)
(* connection receives a message.                                          *)
(***************************************************************************)
C6_FullRoomJoinRejected ==
    (/\ Observed("join-room")
     /\ Where \in DOMAIN pre.rooms
     /\ Len(pre.rooms[Where]) >= 2) =>
        /\ sent = <<[to |-> Who, type |-> "error",
                     message |-> "Room is full (max 2 participants)"]>>
        /\ StateUnchanged

\* a connection that occupies one room has asked to join another room that
\* holds two other members
C6_Witness ==
    /\ Observed("join-room")
    /\ Where \in DOMAIN pre.rooms
    /\ Len(pre.rooms[Where]) = 2
    /\ Who \notin Members(pre.rooms[Where])
    /\ \E r \in RoomIds \ {Where} :
           InRoom(pre.rooms, Who, r) /\ Pointer(pre.connections, Who) = r

(***************************************************************************)
(* C7.  When a connection that is already a member of room r sends         *)
(* join-room for r, it is afterwards still a member of the registered room *)
(* r, its room pointer is r, and it receives a room-joined confirmation    *)
(* and no error.                                                           *)
(***************************************************************************)
C7_RejoinKeepsMembership ==
    (Observed("join-room") /\ InRoom(pre.rooms, Who, Where)) =>
        /\ InRoom(rooms, Who, Where)
        /\ Pointer(connections, Who) = Where
        /\ Confirmed(Who, Where)
        /\ ErrorsTo(Who) = <<>>

(***************************************************************************)
(* C8.  When a member c of room r1 successfully joins a different room r2, *)
(* c is afterwards a member of r2 and not of r1, its pointer is r2, r1 is  *)
(* deleted if c was its only member, and another occupant of r1 (with an   *)
(* open transport) receives one user-left naming c.                        *)
(***************************************************************************)
C8_SwitchingRooms ==
    (Observed("join-room") /\ Where # NoRoom /\ Confirmed(Who, Where)) =>
        \A r1 \in RoomIds \ {Where} :
            InRoom(pre.rooms, Who, r1) =>
                /\ InRoom(rooms, Who, Where)
                /\ ~InRoom(rooms, Who, r1)
                /\ Pointer(connections, Who) = Where
                /\ (Members(pre.rooms[r1]) = {Who} => r1 \notin DOMAIN rooms)
                /\ \A p \in Members(pre.rooms[r1]) \ {Who} :
                       IsOpen(pre.connections, p) => Len(UserLeftTo(p, Who)) = 1

(***************************************************************************)
(* C9.  When Y disconnects while Y and X are the two members of room r, X  *)
(* (its transport open) receives exactly one user-left{userId: Y,          *)
(* participantCount: 1}, r stays registered and its member set is {X}.     *)
(***************************************************************************)
C9_PeerToldOfDisconnect ==
    Observed("close") =>
        \A r \in DOMAIN pre.rooms : \A x \in ConnIds \ {Who} :
            (Members(pre.rooms[r]) = {Who, x} /\ IsOpen(pre.connections, x)) =>
                /\ SelectSeq(sent, LAMBDA m : m.to = x /\ m.type = "user-left")
                       = <<[to |-> x, type |-> "user-left", userId |-> Who,
                            participantCount |-> 1]>>
                /\ r \in DOMAIN rooms
                /\ rooms[r] = <<x>>

(***************************************************************************)
(* C10.  When the last member of room r leaves or disconnects, r is        *)
(* removed from the rooms map in that event; a join-room for an            *)
(* unregistered r creates a room whose only member is the joiner,          *)
(* confirmed with participantCount 1.                                      *)
(***************************************************************************)
C10_RoomRemovedThenFresh ==
    /\ \A r \in RoomIds : LastMemberGoes(r) => r \notin DOMAIN rooms
    /\ (Observed("join-room") /\ Where # NoRoom /\ Where \notin DOMAIN pre.rooms) =>
           /\ Where \in DOMAIN rooms
           /\ rooms[Where] = <<Who>>
           /\ SentTo(Who) = <<[to |-> Who, type |-> "room-joined",
                                roomId |-> Where, participantCount |-> 1]>>

\* the observed event is an offer, answer or ice-candidate frame
Signal == Observed("offer") \/ Observed("answer") \/ Observed("ice-candidate")

\* the observed signaling frame as it is forwarded to connection y
Forwarded(y) ==
    IF Observed("offer")
    THEN [to |-> y, type |-> "offer", offer |-> last.offer, fromUserId |-> Who]
    ELSE IF Observed("answer")
    THEN [to |-> y, type |-> "answer", answer |-> last.answer, fromUserId |-> Who]
    ELSE [to |-> y, type |-> "ice-candidate", candidate |-> last.candidate,
          fromUserId |-> Who]

(***************************************************************************)
(* C11.  An offer, answer or ice-candidate frame naming a room the sender  *)
(* is not a member of is delivered to no connection.                       *)
(***************************************************************************)
C11_RelayOnlyBetweenOccupants ==
    (Signal /\ ~InRoom(pre.rooms, Who, Where)) => sent = <<>>

(***************************************************************************)
(* C12.  When X and Y are the two members of room r and Y's transport is   *)
(* open, an offer, answer or ice-candidate from X naming r produces        *)
(* exactly one outbound message: to Y, of the same type, with the payload  *)
(* unchanged and fromUserId X.                                             *)
(***************************************************************************)
C12_ForwardedToPeerUnchanged ==
    Signal =>
        \A y \in ConnIds \ {Who} :
            (/\ Where \in DOMAIN pre.rooms
             /\ Members(pre.rooms[Where]) = {Who, y}
             /\ IsOpen(pre.connections, y)) =>
                sent = <<Forwarded(y)>>

\* an answer has been forwarded between the two members of a room
C12_Witness ==
    /\ Observed("answer")
    /\ Where \in DOMAIN pre.rooms
    /\ Cardinality(Members(pre.rooms[Where])) = 2
    /\ Who \in Members(pre.rooms[Where])
    /\ Len(sent) = 1
    /\ sent[1].to # Who
    /\ sent[1].answer = last.answer

\* the connections other than the sender that are members of the named room
Others == IF Where \in DOMAIN pre.rooms THEN Members(pre.rooms[Where]) \ {Who} ELSE {}

(***************************************************************************)
(* C13.  An offer, answer or ice-candidate whose room does not exist, has  *)
(* no other occupant, or whose peer's transport is not open is silently    *)
(* dropped: nothing is sent to anyone, rooms and connections stay as they  *)
(* were.                                                                   *)
(***************************************************************************)
C13_SilentDrop ==
    (Signal /\ \A y \in Others : ~IsOpen(pre.connections, y)) =>
        sent = <<>> /\ StateUnchanged

\* an offer was sent to a peer that is registered but whose transport is closing
C13_Witness ==
    /\ Observed("offer")
    /\ \E y \in Others : y \in DOMAIN pre.connections /\ pre.connections[y].ws = "CLOSING"
    /\ Who \in Members(pre.rooms[Where])
    /\ sent = <<>>

\* the observed join-room is admitted: it names a room, and the room is not full
Admitted ==
    /\ Observed("join-room")
    /\ Where # NoRoom
    /\ ~(Where \in DOMAIN pre.rooms /\ Len(pre.rooms[Where]) >= 2)

UserJoined == SelectSeq(sent, LAMBDA m : m.type = "user-joined")

RoomJoinedTo(c) == SelectSeq(sent, LAMBDA m : m.to = c /\ m.type = "room-joined")

(***************************************************************************)
(* C15.  When Y joins a room r whose only member is X, Y receives          *)
(* room-joined with participantCount 2 and X, not Y, receives              *)
(* user-joined{userId: Y, participantCount: 2}; a join that leaves the     *)
(* room at count 1 sends no user-joined; every admitted join is confirmed  *)
(* to the joiner with one room-joined.                                     *)
(***************************************************************************)
C15_JoinNotifications ==
    Admitted =>
        /\ Len(RoomJoinedTo(Who)) = 1
        /\ \A x \in ConnIds \ {Who} :
               (/\ Where \in DOMAIN pre.rooms
                /\ Members(pre.rooms[Where]) = {x}
                /\ IsOpen(pre.connections, x)) =>
                   /\ RoomJoinedTo(Who) =
                          <<[to |-> Who, type |-> "room-joined", roomId |-> Where,
                             participantCount |-> 2]>>
                   /\ UserJoined = <<[to |-> x, type |-> "user-joined",
                                      userId |-> Who, participantCount |-> 2]>>
        /\ RoomJoinedTo(Who)[1].participantCount = 1 => UserJoined = <<>>

\* the second member has joined a room
C15_Witness ==
    /\ Admitted
    /\ Where \in DOMAIN pre.rooms
    /\ Len(pre.rooms[Where]) = 1
    /\ Who \notin Members(pre.rooms[Where])
    /\ Len(UserJoined) = 1

(***************************************************************************)
(* C16.  A join-room frame with a missing or empty roomId is answered with *)
(* an error to the sender and mutates nothing: no room is created, the     *)
(* sender stays in its room, no other connection receives a message.       *)
(***************************************************************************)
C16_MissingRoomIdRejected ==
    (Observed("join-room") /\ Where = NoRoom) =>
        /\ sent = <<[to |-> Who, type |-> "error", message |-> "Room ID is required"]>>
        /\ StateUnchanged

\* a member of a room has sent join-room without a room id
C16_Witness ==
    /\ Observed("join-room")
    /\ Where = NoRoom
    /\ \E r \in RoomIds : InRoom(pre.rooms, Who, r) /\ InRoom(rooms, Who, r)

\* connection d was a member of a room that c was a member of
SharedRoom(c, d) ==
    \E r \in DOMAIN pre.rooms : {c, d} \subseteq Members(pre.rooms[r])

(***************************************************************************)
(* C19.  While c's disconnect is handled at most one message is sent, a    *)
(* user-left to the connection that shared a room with c; the room         *)
(* pointers of the other connections and the rooms c was not a member of   *)
(* are unchanged.                                                          *)
(***************************************************************************)
C19_DisconnectOnlyUserLeft ==
    Observed("close") =>
        /\ Len(sent) <= 1
        /\ \A i \in 1..Len(sent) :
               /\ sent[i].type = "user-left"
               /\ sent[i].to # Who
               /\ SharedRoom(Who, sent[i].to)
        /\ \A d \in (DOMAIN pre.connections) \ {Who} :
               d \in DOMAIN connections /\ connections[d] = pre.connections[d]
        /\ \A r \in DOMAIN pre.rooms :
               Who \notin Members(pre.rooms[r]) =>
                   r \in DOMAIN rooms /\ rooms[r] = pre.rooms[r]

(***************************************************************************)
(* C20.  A frame whose type is not a known inbound type is answered with   *)
(* exactly one error to the sender that names the type; rooms and          *)
(* connections stay as they were.                                          *)
(***************************************************************************)
C20_UnknownTypeRejected ==
    Observed("unknown") =>
        /\ sent = <<[to |-> Who, type |-> "error",
                     message |-> "Unknown message type: " \o last.frameType]>>
        /\ StateUnchanged

\* a member of a two-member room has sent an auth frame
C20_Witness ==
    /\ Observed("unknown")
    /\ last.frameType = "auth"
    /\ \E r \in DOMAIN rooms : Who \in Members(rooms[r]) /\ Len(rooms[r]) = 2
    /\ Len(sent) = 1

\* c's transport has errored or is closing and its 'close' event is due
Down(c) == c \in DOMAIN connections /\ connections[c].ws = "CLOSING"

\* c is deregistered and its id is a member of no registered room
Gone(c) ==
    /\ c \notin DOMAIN connections
    /\ \A r \in DOMAIN rooms : c \notin Members(rooms[r])

(***************************************************************************)
(* C17.  After a transport error or close event of a registered connection *)
(* c, c is eventually removed from its room and deregistered from the      *)
(* connection registry.                                                    *)
(***************************************************************************)
C17_DownLeadsToGone == \A c \in ConnIds : [](Down(c) => <>Gone(c))

(***************************************************************************)
(* C18.  A second handleDisconnect for the same connection id (the 'close' *)
(* event of a transport whose 'error' event already ran it) changes no     *)
(* room and no registry entry and sends no message.                        *)
(***************************************************************************)
C18_SecondDisconnectIsNoOp ==
    (Observed("close") /\ Who \notin DOMAIN pre.connections) =>
        sent = <<>> /\ StateUnchanged

\* the 'close' event of a transport that errored has run handleDisconnect
\* again while the id was still listed in a room next to a live connection
C18_Witness ==
    /\ Observed("close")
    /\ Who \notin DOMAIN pre.connections
    /\ \E r \in DOMAIN pre.rooms :
           /\ Who \in Members(pre.rooms[r])
           /\ \E d \in DOMAIN pre.connections : d \in Members(pre.rooms[r])

(***************************************************************************)
(* C21.  An unparsable frame is answered with the generic error to the     *)
(* sender; the sender stays registered, its transport open (so its later   *)
(* frames are received), and rooms and room pointers are unchanged.        *)
(***************************************************************************)
C21_MalformedFrameRejected ==
    Observed("malformed") =>
        /\ sent = <<[to |-> Who, type |-> "error", message |-> "Invalid message format"]>>
        /\ StateUnchanged
        /\ IsOpen(connections, Who)

\* a member of a two-member room has sent an unparsable frame
C21_Witness ==
    /\ Observed("malformed")
    /\ \E r \in DOMAIN rooms : Who \in Members(rooms[r]) /\ Len(rooms[r]) = 2
    /\ Len(sent) = 1

(***************************************************************************)
(* C22.  A ping frame from a connection in any state is answered with      *)
(* exactly one pong to the sender; nothing goes to another connection,     *)
(* rooms and connections are unchanged.                                    *)
(***************************************************************************)
C22_PingAnswered ==
    Observed("ping") =>
        sent = <<[to |-> Who, type |-> "pong"]>> /\ StateUnchanged

\* a member of a two-member room whose peer is open has sent a ping
C22_Witness ==
    /\ Observed("ping")
    /\ \E r \in DOMAIN rooms :
           /\ Who \in Members(rooms[r])
           /\ \E d \in Members(rooms[r]) \ {Who} : IsOpen(connections, d)
    /\ Len(sent) = 1

\* the steps in which a suspended handleAuth resumes
AuthResumed ==
    last.type \in {"auth.getUserById", "auth.delete", "auth.insert", "auth.online"}

\* the async handlers of connection c that are suspended in a bag of tasks
TasksOf(ts, c) == {t \in BagToSet(ts) : t.clientId = c}

RowsOf(d, c) == {row \in d.active : row.socketId = c}

(***************************************************************************)
(* C23.  A directory response that handleAuth consumes after the 'close'   *)
(* of its connection c was dispatched mutates nothing: the step adds no    *)
(* active_connections row for c, changes no user's status and binds no     *)
(* identity; and once c is deregistered and none of its handlers is        *)
(* suspended, the directory holds no row for c.                            *)
(***************************************************************************)
C23_LateResponseMutatesNothing ==
    /\ (AuthResumed /\ Who \in closed) =>
           /\ RowsOf(db, Who) \subseteq RowsOf(pre.db, Who)
           /\ db.status = pre.db.status
           /\ connections = pre.connections
    /\ \A c \in closed :
           (c \notin DOMAIN connections /\ TasksOf(tasks, c) = {}) => RowsOf(db, c) = {}

\* the frames the message listener of the server with a user directory handles
AuthFrames == {"auth", "join-room", "leave-room", "unknown"}

(***************************************************************************)
(* C24.  When a frame of a connection is handled, no handler of an         *)
(* earlier frame of that connection is still suspended: everything the     *)
(* earlier frame causes is complete.                                       *)
(***************************************************************************)
C24_FramesInReceiptOrder ==
    (last.type \in AuthFrames) =>
        \A t \in TasksOf(pre.tasks, Who) : t.kind # "handleAuth"

(***************************************************************************)
(* C25.  An auth frame without userId is answered with the error 'User ID  *)
(* required' at once, and an auth whose userId the directory does not know *)
(* is answered with 'User not found' when the lookup returns (to a         *)
(* transport that is still open); in both cases the registry, so the bound *)
(* identity, and the directory are unchanged and the handler has ended.    *)
(***************************************************************************)
C25_FailedAuthChangesNothing ==
    /\ (Observed("auth") /\ last.userId = NoUser) =>
           /\ sent = <<[to |-> Who, type |-> "error", message |-> "User ID required"]>>
           /\ StateUnchanged
           /\ db = pre.db
           /\ tasks = pre.tasks
    /\ (Observed("auth.getUserById") /\ last.userId \notin Users) =>
           /\ sent = IF IsOpen(pre.connections, Who)
                     THEN <<[to |-> Who, type |-> "error", message |-> "User not found"]>>
                     ELSE <<>>
           /\ StateUnchanged
           /\ db = pre.db
           /\ TasksOf(tasks, Who) \subseteq TasksOf(pre.tasks, Who)
           /\ BagCardinality(tasks) = BagCardinality(pre.tasks) - 1

C25_Witness ==
    /\ Observed("auth.getUserById")
    /\ last.userId = "nobody"
    /\ pre.connections[Who].userId = NoUser
    /\ Len(sent) = 1

(***************************************************************************)
(* C26.  A tick of a connection's keepalive timer and a pong change        *)
(* neither map: no connection is deregistered, no transport changes its    *)
(* state and no room changes, however many pings are unanswered.           *)
(***************************************************************************)
C26_MonitorNeverDisconnects ==
    (Observed("ping-tick") \/ Observed("pong")) => StateUnchanged

\* a tick of a connection in a room with a peer that has a ping unanswered
C26_Witness ==
    /\ Observed("ping-tick")
    /\ pings[Who] >= 2
    /\ \E r \in DOMAIN rooms : Who \in Members(rooms[r]) /\ Len(rooms[r]) = 2

(***************************************************************************)
(* C27.  (src/server.js)  Once the 'close' of a connection has been        *)
(* handled, the keepalive timer of that connection is no longer scheduled. *)
(***************************************************************************)
C27_CloseCancelsTimer == \A c \in closed : c \notin timers

(***************************************************************************)
(* C28.  (src/server.js)  The SIGTERM / SIGINT listener sends              *)
(* 'server-shutdown' to every connection whose transport is open, then     *)
(* every transport is closing or closed, and the process exits only after  *)
(* every transport has closed.                                             *)
(***************************************************************************)
C28_ShutdownAnnounced ==
    /\ (last.type \in Signals) =>
           /\ \A c \in DOMAIN pre.connections :
                  IsOpen(pre.connections, c) =>
                      \E i \in 1..Len(sent) :
                          sent[i].to = c /\ sent[i].type = "server-shutdown"
           /\ \A c \in DOMAIN connections : ~IsOpen(connections, c)
    /\ phase = "exited" => \A c \in 1..(nextId - 1) : c \in closed

(***************************************************************************)
(* C29.  The id given to a new connection is held by no registered         *)
(* connection and is listed in no room: the new record replaces none and   *)
(* the new connection is a member of nothing.                              *)
(***************************************************************************)
C29_IdsNeverReused ==
    Observed("connection") =>
        /\ Who \notin DOMAIN pre.connections
        /\ \A r \in DOMAIN pre.rooms : Who \notin Members(pre.rooms[r])

(***************************************************************************)
(* C30.  Every id in the room registry is a trimmed, non-empty id; and a   *)
(* join-room whose roomId is empty after trimming is answered with an      *)
(* error and changes nothing.                                              *)
(***************************************************************************)
C30_RoomIdsTrimmedNonEmpty ==
    /\ \A r \in DOMAIN rooms : r \in TrimRoomIds
    /\ (Observed("join-room") /\ trim(Where) \in {NoRoom, EmptyStr}) =>
           /\ sent = <<[to |-> Who, type |-> "error", message |-> "Room ID is required"]>>
           /\ StateUnchanged

\* the reply of a join-room that found the room full, in the variant that trims
RoomFullTrim ==
    [to |-> Who, type |-> "error", message |-> "Room is full (maximum 2 participants)"]

(***************************************************************************)
(* C31.  (src/unnamed/part_001 985-1057)  A join-room that is answered     *)
(* with the error 'Room is full' changes nothing: rooms and the registry,  *)
(* so the joiner's membership and pointer, are as before, and the error is *)
(* the only message written (no user-left goes to the joiner's peer).      *)
(***************************************************************************)
C31_FullRoomRejectionChangesNothing ==
    (Observed("join-room") /\ \E i \in 1..Len(sent) : sent[i] = RoomFullTrim) =>
        /\ StateUnchanged
        /\ sent = <<RoomFullTrim>>

\* the registered rooms that list connection id c
RoomsOf(rs, c) == {r \in DOMAIN rs : c \in Members(rs[r])}

(***************************************************************************)
(* C32.  In every reachable state every connection id is listed in at most *)
(* one registered room.                                                    *)
(***************************************************************************)
C32_AtMostOneRoom == \A c \in ConnIds : Cardinality(RoomsOf(rooms, c)) <= 1

(***************************************************************************)
(* C33.  For each period in which c shares a room with p, p is sent at     *)
(* most one user-left naming c: an event sends p at most one, and none if  *)
(* p was already sent one in their latest period together or since it.     *)
(***************************************************************************)
C33_AtMostOneUserLeft ==
    ~Observed("none") =>
        \A p \in ConnIds, c \in ConnIds :
            /\ Len(UserLeftTo(p, c)) <= 1
            /\ UserLeftTo(p, c) # <<>> => <<p, c>> \notin pre.notified

(***************************************************************************)
(* C34.  Every user-left of an event names a connection c that the event   *)
(* removed from a room r, goes to the connection that is the only member   *)
(* of r afterwards, and carries participantCount 1.                        *)
(***************************************************************************)
C34_UserLeftIsTruthful ==
    ~Observed("none") =>
        \A i \in 1..Len(sent) :
            sent[i].type = "user-left" =>
                /\ sent[i].participantCount = 1
                /\ \E r \in DOMAIN pre.rooms :
                       /\ sent[i].userId \in Members(pre.rooms[r])
                       /\ r \in DOMAIN rooms
                       /\ Members(rooms[r]) = {sent[i].to}

(***************************************************************************)
(* C35.  Handling an offer, answer or ice-candidate leaves the rooms map,  *)
(* every member list and every connection record as they were, whether or  *)
(* not the frame is forwarded.                                             *)
(***************************************************************************)
C35_SignalsChangeNoState == Signal => StateUnchanged

\* an offer of a room member that was forwarded to the other member
C35_Witness ==
    /\ Observed("offer")
    /\ Where \in DOMAIN pre.rooms
    /\ Who \in Members(pre.rooms[Where])
    /\ Len(sent) = 1
    /\ sent[1].to # Who

\* message m carries the id of the connection that caused it
Causer(m) ==
    IF m.type \in {"offer", "answer", "ice-candidate"} THEN m.fromUserId
    ELSE IF m.type \in {"user-joined", "user-left"} THEN m.userId
    ELSE NoConn

(***************************************************************************)
(* C36.  A forwarded offer, answer or ice-candidate and a user-joined or   *)
(* user-left notification never goes to the connection it names as its     *)
(* origin (fromUserId, userId).                                            *)
(***************************************************************************)
C36_NoSelfDelivery ==
    \A i \in 1..Len(sent) : sent[i].to # Causer(sent[i])

\* the first member of a room of two leaves it and the other is told
C36_Witness ==
    /\ Observed("leave-room")
    /\ Where \in DOMAIN pre.rooms
    /\ Len(pre.rooms[Where]) = 2
    /\ pre.rooms[Where][1] = Who
    /\ Len(sent) = 1
    /\ sent[1].type = "user-left"
    /\ sent[1].userId = Who

\* the registered connections with a live transport that are bound to user u
\* and have no handler suspended
LiveBound(u) ==
    {c \in DOMAIN connections :
        /\ connections[c].userId = u
        /\ connections[c].ws = "OPEN"
        /\ TasksOf(tasks, c) = {}}

(***************************************************************************)
(* C37.  When no handler is suspended, a user to whom a registered         *)
(* connection with a live transport is bound is 'online' and has an        *)
(* active_connections row.                                                 *)
(***************************************************************************)
C37_OnlineWhileBound ==
    tasks = EmptyBag =>
        \A u \in Users :
            LiveBound(u) # {} =>
                /\ db.status[u] = "online"
                /\ \E row \in db.active : row.userId = u

====
